---- MODULE Spec2Model ----
(***************************************************************************)
(* A model of the capture core of bluely: AudioCapture (audio_capture.py), *)
(* its pull-loop thread, the voice-activity segmentation of                *)
(* _manual_recording, the speech test _is_actual_speech, and the           *)
(* single-slot "latest audio file" store guarded by AudioCapture.lock.     *)
(*                                                                         *)
(* Time is in milliseconds.  A device read blocks for one chunk, so the    *)
(* clock advances by chunk_size / sample_rate at every read.               *)
(*                                                                         *)
(* A chunk of samples is represented by the features the code computes     *)
(* from it: its mean square (volume squared), its largest and smallest     *)
(* sample, and its zero crossings per thousand samples.  Every chunk of a  *)
(* run has chunk_size samples (stream.read blocks until it has them), so   *)
(* the mean over a buffer of chunks is the mean of the chunks' means.      *)
(* The chunk kinds below begin and end with samples of the same sign, so   *)
(* joining two chunks adds no zero crossing.                               *)
(***************************************************************************)
EXTENDS Integers, Sequences, FiniteSets, TLC

VARIABLES
    chunk_size,         \* self.chunk_size (samples per read)
    sample_rate,        \* self.sample_rate (Hz)
    mic,                \* the device: [script: chunks it will deliver, free: reads of any chunk left]
    now,                \* time.time(), in ms
    heard,              \* history: every chunk the device has delivered
    is_recording,       \* self.is_recording
    recording_thread,   \* self.recording_thread (thread id, None before the first start)
    stream,             \* self.stream (stream id, None before the first open)
    open_streams,       \* the streams that are open at the device layer
    terminations,       \* history: number of self.audio.terminate() calls
    starts,             \* history: number of start_recording calls
    opc,                \* the owner thread: "idle", "join" inside stop_recording,
                        \* "cleanup_join" and "terminate" inside cleanup
    tpc,                \* each capture thread's position
    frames,             \* _manual_recording's local frames, per thread
    silence_start,      \* _manual_recording's local silence_start
    recording_start,    \* _manual_recording's local recording_start
    current_time,       \* _manual_recording's local current_time
    filename,           \* _save_audio_chunk's local filename
    lock,               \* self.lock: the process holding it, NoOne if free
    latest_audio_file,  \* self.latest_audio_file
    files,              \* names of the artifacts that exist on disk
    partial,            \* the artifacts on disk whose write has not completed
    headers,            \* the WAV header of each artifact that has one
    last_event,         \* history: the last completed store operation (again: a clear after a clear)
    rpc,                \* each reader thread's position
    audio_file,         \* each reader's last result of get_latest_audio_file
    mpc,                \* the conversation loop's position
    main_file,          \* _conversation_loop's local audio_file
    used,               \* history: the files given to transcribe, and what came back
    audio_queue,        \* TTSService.audio_queue
    is_playing,         \* TTSService.is_playing
    playback_thread,    \* TTSService.playback_thread (worker id, None before the first)
    wpc,                \* each playback worker's position
    item,               \* each playback worker's local text
    spoken,             \* history: the texts given to speak, in order
    qpc,                \* the caller of queue_speech: its position
    queued,             \* history: number of queue_speech calls
    callback,           \* each thread's callback argument (None without one)
    delivered,          \* history: number of _audio_callback invocations
    callback_calls,     \* history: number of invocations of the caller's callback
    max_history,        \* ConversationManager.max_history (None before construction)
    conversation_history, \* ConversationManager.conversation_history
    exchanges,          \* history: the exchanges added since the last clear_history
    added               \* history: number of add_exchange calls

vars == << chunk_size, sample_rate, mic, now, heard, is_recording,
           recording_thread, stream, open_streams, terminations, starts, opc,
           tpc, frames,
           silence_start, recording_start, current_time, filename, lock,
           latest_audio_file, files, partial, headers, last_event, rpc,
           audio_file, mpc, main_file, used, audio_queue, is_playing,
           playback_thread, wpc, item, spoken, qpc, queued, callback, delivered,
           callback_calls, max_history, conversation_history, exchanges, added >>

config_vars == << chunk_size, sample_rate >>
audio_vars == << terminations >>
device_vars == << mic, now, heard >>
driver_vars == << is_recording, recording_thread, starts, opc >>
stream_vars == << stream, open_streams >>
local_vars == << frames, silence_start, recording_start, current_time >>
store_vars == << lock, latest_audio_file, files, partial, headers, last_event >>
reader_vars == << rpc, audio_file >>
main_vars == << mpc, main_file, used >>
tts_vars == << audio_queue, is_playing, playback_thread, wpc, item, spoken,
              qpc, queued >>
callback_vars == << callback, delivered, callback_calls >>
history_vars == << max_history, conversation_history, exchanges, added >>
app_vars == << main_vars, tts_vars, callback_vars, history_vars >>
capture_vars == << config_vars, audio_vars, device_vars, driver_vars,
                  stream_vars, tpc, local_vars, filename >>

----------------------------------------------------------------------------
(* Bounds of the model *)

MaxChunks == 7      \* reads of a freely chosen chunk
MaxThreads == 2     \* capture threads ever spawned
MaxStarts == 2      \* start_recording calls
MaxCleanups == 2    \* cleanup calls
MaxLoud == 3        \* loud chunks of a buffer given to _is_actual_speech
MaxReads == 4       \* reads of the runs in which a read can return no sample
MaxUses == 3        \* transcribe calls of the conversation loop
MaxWorkers == 2     \* playback threads ever started
MaxItems == 3       \* queue_speech calls
MaxExchanges == 12  \* add_exchange calls
NumReaders == 2     \* reader threads
Rounds == 2         \* spoken segments of the store specification's device script
LongLead == 190     \* silent chunks read before a scenario's first loud chunk
LongChunkSize == 8000   \* the chunk_size of the runs with long chunks: 500 ms per read

Threads == 1 .. MaxThreads
Readers == 1 .. NumReaders
\* process ids for the lock: capture thread t is t, reader r is MaxThreads + r
ReaderId(r) == MaxThreads + r
MainId == MaxThreads + NumReaders + 1
Workers == 1 .. MaxWorkers

----------------------------------------------------------------------------
(* Program constants *)

None == 0                       \* Python's None (no time, no file, no thread)
NoOne == 0                      \* the lock is free
Callable == 1                   \* a callback argument: a callable, true in a test
silence_threshold == 100
silence_duration == 1000        \* 1.0 s
min_recording_duration == 500   \* 0.5 s
speech_threshold == 150
min_dynamic_range == 1000
DefaultSampleRate == 16000
DefaultChunkSize == 1024
channels == 1                   \* mono
SampleWidth == 2                \* bytes of a paInt16 sample

\* seconds per chunk, in ms
ChunkMs == (chunk_size * 1000) \div sample_rate

----------------------------------------------------------------------------
(* Chunks *)

\* RMS 500, dynamic range 4000, zero-crossing rate 0.1
Speech == [ms |-> 250000, max |-> 2000, min |-> -2000, zc |-> 100, n |-> 1]
\* RMS 10
Silent == [ms |-> 100, max |-> 20, min |-> -20, zc |-> 100, n |-> 1]
\* RMS 100: exactly the silence threshold
Hum == [ms |-> 10000, max |-> 600, min |-> -600, zc |-> 100, n |-> 1]
\* RMS 120: above the silence threshold, below the speech threshold
Noise == [ms |-> 14400, max |-> 700, min |-> -700, zc |-> 100, n |-> 1]

FreeChunks == {Speech, Noise, Hum, Silent}

\* RMS 10000, dynamic range 40000 (more than an int16 holds)
Shout == [ms |-> 100000000, max |-> 20000, min |-> -20000, zc |-> 100, n |-> 1]
\* RMS 500, dynamic range exactly 1000
Flat == [ms |-> 250000, max |-> 500, min |-> -500, zc |-> 100, n |-> 1]
\* RMS 500, zero-crossing rate 0.9
Hiss == [ms |-> 250000, max |-> 2000, min |-> -2000, zc |-> 900, n |-> 1]
\* RMS 500, zero-crossing rate 0.005
Rumble == [ms |-> 250000, max |-> 2000, min |-> -2000, zc |-> 5, n |-> 1]
\* digital silence: every sample is 0
Still == [ms |-> 0, max |-> 0, min |-> 0, zc |-> 0, n |-> 1]
\* a read that returns no sample (b'')
Empty == [ms |-> 0, max |-> 0, min |-> 0, zc |-> 0, n |-> 0]

ClassifyChunks == {Speech, Shout, Noise, Flat, Hiss, Rumble}

Rep(c, n) == [i \in 1 .. n |-> c]

\* lead silent chunks, n chunks c, and 20 silent chunks (1.28 s at 64 ms a chunk)
Scenario(lead, c, n) == Rep(Silent, lead) \o Rep(c, n) \o Rep(Silent, 20)

\* the sum of a field over the chunks of a buffer, taken value by value
RECURSIVE SumValues(_, _, _)
SumValues(buf, field, values) ==
    IF values = {} THEN 0
    ELSE LET v == CHOOSE x \in values : TRUE
         IN v * Cardinality({i \in DOMAIN buf : buf[i][field] = v})
              + SumValues(buf, field, values \ {v})

SumOf(buf, field) ==
    SumValues(buf, field, {buf[i][field] : i \in DOMAIN buf})

\* len(audio_array), in chunks: a chunk is full (n = 1) or empty (n = 0)
Samples(buf) == SumOf(buf, "n")

\* the chunks of a buffer that hold samples
Filled(buf) == {i \in DOMAIN buf : buf[i].n > 0}

MaxOf(buf) ==
    CHOOSE m \in {buf[i].max : i \in Filled(buf)} :
        \A i \in Filled(buf) : buf[i].max <= m

MinOf(buf) ==
    CHOOSE m \in {buf[i].min : i \in Filled(buf)} :
        \A i \in Filled(buf) : buf[i].min >= m

\* arithmetic of numpy.int16: the result is reduced to -32768 .. 32767
Int16(x) == ((x + 32768) % 65536) - 32768

\* volume > threshold, volume the root of the mean square of the buffer
VolumeAbove(buf, threshold) ==
    SumOf(buf, "ms") > threshold * threshold * Samples(buf)
VolumeBelow(buf, threshold) ==
    SumOf(buf, "ms") < threshold * threshold * Samples(buf)

\* a bug: a chunk without samples counts as voice
ChunkVolumeAboveUnlessEmpty(c, threshold) ==
    IF c.n > 0 THEN VolumeAbove(<< c >>, threshold) ELSE TRUE

\* lines 103-110: the volume of one chunk is above the threshold; the volume
\* of a chunk without samples is 0.0
ChunkVolumeAbove(c, threshold) ==
    IF c.n > 0 THEN VolumeAbove(<< c >>, threshold) ELSE 0 > threshold

DynamicRange(buf) == Int16(MaxOf(buf) - MinOf(buf))

\* 0.01 < zero_crossings / len(audio_array) < 0.3, in crossings per thousand
ZeroCrossingRateOk(buf) ==
    /\ SumOf(buf, "zc") > 10 * Samples(buf)
    /\ SumOf(buf, "zc") < 300 * Samples(buf)

\* a bug: the volume of the buffer is not tested
IsActualSpeechAnyVolume(buf) ==
    IF buf = << >> THEN FALSE
    ELSE IF Samples(buf) = 0 THEN FALSE
    ELSE /\ DynamicRange(buf) > min_dynamic_range
         /\ ZeroCrossingRateOk(buf)

IsActualSpeech(buf) ==
    IF buf = << >> THEN FALSE
    ELSE IF Samples(buf) = 0 THEN FALSE
    ELSE IF VolumeBelow(buf, speech_threshold) THEN FALSE
    ELSE /\ VolumeAbove(buf, speech_threshold)
         /\ DynamicRange(buf) > min_dynamic_range
         /\ ZeroCrossingRateOk(buf)

----------------------------------------------------------------------------
(* Initial states *)

InitWith(cs, sr, script, free) ==
    /\ chunk_size = cs
    /\ sample_rate = sr
    /\ mic = [script |-> script, free |-> free]
    /\ now = 0
    /\ heard = << >>
    /\ is_recording = FALSE
    /\ recording_thread = None
    /\ stream = None
    /\ open_streams = {}
    /\ terminations = 0
    /\ starts = 0
    /\ opc = "idle"
    /\ tpc = [t \in Threads |-> "none"]
    /\ frames = [t \in Threads |-> << >>]
    /\ silence_start = [t \in Threads |-> None]
    /\ recording_start = [t \in Threads |-> None]
    /\ current_time = [t \in Threads |-> None]
    /\ filename = [t \in Threads |-> None]
    /\ lock = NoOne
    /\ latest_audio_file = None
    /\ files = {}
    /\ partial = {}
    /\ headers = << >>
    /\ last_event = [op |-> "none", name |-> None, again |-> FALSE]
    /\ rpc = [r \in Readers |-> "idle"]
    /\ audio_file = [r \in Readers |-> None]
    /\ mpc = "top"
    /\ main_file = None
    /\ used = << >>
    /\ audio_queue = << >>
    /\ is_playing = FALSE
    /\ playback_thread = None
    /\ wpc = [w \in Workers |-> "none"]
    /\ item = [w \in Workers |-> None]
    /\ spoken = << >>
    /\ qpc = "idle"
    /\ queued = 0
    /\ callback = [t \in Threads |-> None]
    /\ delivered = 0
    /\ callback_calls = 0
    /\ max_history = None
    /\ conversation_history = << >>
    /\ exchanges = << >>
    /\ added = 0

\* AudioCapture(chunk_size=8000): any chunk at every read
InitSeg == InitWith(LongChunkSize, DefaultSampleRate, << >>, MaxChunks)

\* AudioCapture(): 1024 samples at 16 kHz, and the device delivers a scenario:
\* 20 chunks of RMS 500, 3 chunks of RMS 500 or 30 chunks of RMS 120, then
\* silence; the room was quiet for no chunk or for LongLead chunks before
InitScenario ==
    \E lead \in {0, LongLead} :
      \E sc \in {<< Speech, 20 >>, << Speech, 3 >>, << Noise, 30 >>} :
        InitWith(DefaultChunkSize, DefaultSampleRate,
                 Scenario(lead, sc[1], sc[2]), 0)

\* AudioCapture(chunk_size=8000), and the device delivers Rounds spoken
\* segments: a chunk of speech, then silence for longer than silence_duration
RECURSIVE Segments(_)
Segments(n) ==
    IF n = 0 THEN << >>
    ELSE << Speech, Silent, Silent, Silent, Silent >> \o Segments(n - 1)

InitStore == InitWith(LongChunkSize, DefaultSampleRate, Segments(Rounds), 0)

\* the sample rates AudioCapture is constructed with
SampleRates == {8000, DefaultSampleRate, 44100}

\* AudioCapture(sample_rate=sr, chunk_size=sr // 2): 0.5 s per read at every
\* rate, and the device delivers Rounds spoken segments
InitRoundTrip ==
    \E sr \in SampleRates :
        InitWith(sr \div 2, sr, Segments(Rounds), 0)

\* AudioCapture(chunk_size=8000), and the device delivers one spoken segment
InitLife == InitWith(LongChunkSize, DefaultSampleRate, Segments(1), 0)

\* AudioCapture(chunk_size=24000): 1.5 s per read, and the device delivers
\* one spoken segment that the second silent chunk ends
InitShutdown ==
    InitWith(3 * LongChunkSize, DefaultSampleRate, << Speech, Silent, Silent >>, 0)

\* AudioCapture(chunk_size=24000), and the device delivers 1 .. MaxLoud chunks
\* of one kind, then digital silence: the second still chunk ends the segment
InitClassify ==
    \E c \in ClassifyChunks, n \in 1 .. MaxLoud :
        InitWith(3 * LongChunkSize, DefaultSampleRate,
                 Rep(c, n) \o << Still, Still >>, 0)

\* AudioCapture(chunk_size=24000), and the device delivers up to MaxReads
\* chunks, each of them speech, silence or without samples
InitEmptyRead ==
    \E n \in 1 .. MaxReads :
        \E script \in [1 .. n -> {Speech, Silent, Empty}] :
            InitWith(3 * LongChunkSize, DefaultSampleRate, script, 0)

----------------------------------------------------------------------------
(* The owner: start_recording, stop_recording and cleanup *)

UnusedThreads == {t \in Threads : tpc[t] = "none"}

\* a bug: is_recording is not tested, and every call spawns a thread
StartRecordingUnguarded ==
    /\ opc = "idle"
    /\ starts < MaxStarts
    /\ starts' = starts + 1
    /\ UnusedThreads # {}
    /\ LET t == CHOOSE u \in UnusedThreads : \A v \in UnusedThreads : u <= v
       IN /\ is_recording' = TRUE
          /\ recording_thread' = t
          /\ tpc' = [tpc EXCEPT ![t] = "open"]
    /\ UNCHANGED << opc, config_vars, audio_vars, device_vars, stream_vars, local_vars,
                    filename, store_vars, reader_vars, app_vars >>

StartRecording ==
    /\ opc = "idle"
    /\ starts < MaxStarts
    /\ starts' = starts + 1
    /\ IF is_recording
       THEN UNCHANGED << is_recording, recording_thread, tpc >>
       ELSE /\ UnusedThreads # {}
            /\ LET t == CHOOSE u \in UnusedThreads : \A v \in UnusedThreads : u <= v
               IN /\ is_recording' = TRUE
                  /\ recording_thread' = t
                  /\ tpc' = [tpc EXCEPT ![t] = "open"]
    /\ UNCHANGED << opc, config_vars, audio_vars, device_vars, stream_vars, local_vars,
                    filename, store_vars, reader_vars, app_vars >>

\* start_recording(callback): the thread is given the caller's callable
StartRecordingWithCallback ==
    /\ opc = "idle"
    /\ starts < MaxStarts
    /\ starts' = starts + 1
    /\ IF is_recording
       THEN UNCHANGED << is_recording, recording_thread, tpc, callback >>
       ELSE /\ UnusedThreads # {}
            /\ LET t == CHOOSE u \in UnusedThreads : \A v \in UnusedThreads : u <= v
               IN /\ is_recording' = TRUE
                  /\ recording_thread' = t
                  /\ tpc' = [tpc EXCEPT ![t] = "open"]
                  /\ callback' = [callback EXCEPT ![t] = Callable]
    /\ UNCHANGED << opc, config_vars, audio_vars, device_vars, stream_vars, local_vars,
                    filename, store_vars, reader_vars, main_vars, tts_vars,
                    delivered, callback_calls, history_vars >>

\* stop_recording: the flag is cleared, and the caller joins the thread
StopRecording ==
    /\ opc = "idle"
    /\ is_recording' = FALSE
    /\ opc' = IF recording_thread # None THEN "join" ELSE "idle"
    /\ UNCHANGED << recording_thread, starts, tpc, config_vars, audio_vars, device_vars,
                    stream_vars, local_vars, filename, store_vars, reader_vars, app_vars >>

\* join(timeout=2.0) returns: the thread has ended
JoinReturns ==
    /\ opc \in {"join", "cleanup_join"}
    /\ tpc[recording_thread] = "done"
    /\ opc' = IF opc = "join" THEN "idle" ELSE "terminate"
    /\ UNCHANGED << is_recording, recording_thread, starts, tpc, config_vars, audio_vars,
                    device_vars, stream_vars, local_vars, filename, store_vars,
                    reader_vars, app_vars >>

\* join(timeout=2.0) returns: two seconds have passed and the thread has not ended
\* a bug: join() without a timeout never returns while the thread runs
JoinWaitsForever ==
    /\ FALSE
    /\ UNCHANGED vars

JoinTimesOut ==
    /\ opc \in {"join", "cleanup_join"}
    /\ tpc[recording_thread] # "done"
    /\ opc' = IF opc = "join" THEN "idle" ELSE "terminate"
    /\ UNCHANGED << is_recording, recording_thread, starts, tpc, config_vars, audio_vars,
                    device_vars, stream_vars, local_vars, filename, store_vars,
                    reader_vars, app_vars >>

\* cleanup (also __exit__): stop_recording's flag and join, then line 237
CleanupCall ==
    /\ opc = "idle"
    /\ terminations < MaxCleanups
    /\ is_recording' = FALSE
    /\ opc' = IF recording_thread # None THEN "cleanup_join" ELSE "terminate"
    /\ UNCHANGED << recording_thread, starts, tpc, config_vars, audio_vars,
                    device_vars, stream_vars, local_vars, filename, store_vars,
                    reader_vars, app_vars >>

\* a bug: the streams that are still open are left open
TerminateLeavesStreams ==
    /\ opc = "terminate"
    /\ terminations' = terminations + 1
    /\ opc' = "idle"
    /\ UNCHANGED << is_recording, recording_thread, starts, tpc, config_vars,
                    device_vars, stream_vars, local_vars, filename, store_vars,
                    reader_vars, app_vars >>

\* self.audio.terminate(): self.audio is never None, so every cleanup calls
\* it; PyAudio closes every stream it has opened and releases PortAudio
Terminate ==
    /\ opc = "terminate"
    /\ terminations' = terminations + 1
    /\ open_streams' = {}
    /\ opc' = "idle"
    /\ UNCHANGED << is_recording, recording_thread, starts, tpc, config_vars,
                    device_vars, stream, local_vars, filename, store_vars,
                    reader_vars, app_vars >>

----------------------------------------------------------------------------
(* The capture thread: _record_audio and _manual_recording *)

\* self.audio.open(...) succeeds (it raises once PortAudio is released), and
\* _manual_recording sets its locals
OpenStream(t) ==
    /\ tpc[t] = "open"
    /\ terminations = 0
    /\ stream' = t
    /\ open_streams' = open_streams \cup {t}
    /\ frames' = [frames EXCEPT ![t] = << >>]
    /\ silence_start' = [silence_start EXCEPT ![t] = None]
    /\ recording_start' = [recording_start EXCEPT ![t] = None]
    /\ tpc' = [tpc EXCEPT ![t] = IF callback[t] = None THEN "loop" ELSE "poll"]
    /\ UNCHANGED << config_vars, audio_vars, device_vars, driver_vars, current_time,
                    filename, store_vars, reader_vars, app_vars >>

\* self.audio.open(...) raises: except, then finally
OpenFails(t) ==
    /\ tpc[t] = "open"
    /\ tpc' = [tpc EXCEPT ![t] = "finally"]
    /\ UNCHANGED << config_vars, audio_vars, device_vars, driver_vars, stream_vars,
                    local_vars, filename, store_vars, reader_vars, app_vars >>

\* while self.is_recording
LoopTest(t) ==
    /\ tpc[t] = "loop"
    /\ tpc' = [tpc EXCEPT ![t] = IF is_recording THEN "read" ELSE "finally"]
    /\ UNCHANGED << config_vars, audio_vars, device_vars, driver_vars, stream_vars,
                    local_vars, filename, store_vars, reader_vars, app_vars >>

\* the chunks the device can deliver at the next read
NextChunks ==
    IF mic.script # << >> THEN {Head(mic.script)}
    ELSE IF mic.free > 0 THEN FreeChunks
    ELSE {}

MicAfterRead ==
    IF mic.script # << >> THEN [mic EXCEPT !.script = Tail(mic.script)]
    ELSE [mic EXCEPT !.free = mic.free - 1]

\* a bug: a chunk at the silence threshold counts as voice
NewRecordingStartAtThreshold(t, c, time) ==
    IF ~VolumeBelow(<< c >>, silence_threshold) /\ recording_start[t] = None
    THEN time ELSE recording_start[t]

\* a bug: a loud chunk does not clear the silence timer
NewSilenceStartKeepsTimer(t, c, time) ==
    IF ~ChunkVolumeAbove(c, silence_threshold) /\ silence_start[t] = None
    THEN time ELSE silence_start[t]

\* a bug: the second silent chunk ends the segment, whatever time has passed
AfterChunkEndsAtOnce(t, c, time) ==
    IF ChunkVolumeAbove(c, silence_threshold) THEN "loop"
    ELSE IF silence_start[t] = None THEN "loop"
    ELSE IF recording_start[t] # None THEN "finalize"
    ELSE "loop"

\* lines 114-119 and 122-123: the timers after a chunk read at `time`
NewRecordingStart(t, c, time) ==
    IF ChunkVolumeAbove(c, silence_threshold) /\ recording_start[t] = None
    THEN time ELSE recording_start[t]

NewSilenceStart(t, c, time) ==
    IF ChunkVolumeAbove(c, silence_threshold) THEN None
    ELSE IF silence_start[t] = None THEN time
    ELSE silence_start[t]

\* one pass of the loop body up to the end-of-speech test: the position after it
AfterChunk(t, c, time) ==
    IF ChunkVolumeAbove(c, silence_threshold) THEN "loop"
    ELSE IF silence_start[t] = None THEN "loop"
    ELSE IF recording_start[t] # None /\ (time - silence_start[t]) > silence_duration
         THEN "finalize"
    ELSE "loop"

\* stream.read returns a chunk; one without samples takes no time
ReadChunk(t) ==
    /\ tpc[t] = "read"
    /\ stream \in open_streams
    /\ \E c \in NextChunks :
         LET time == now + ChunkMs * c.n IN
         /\ mic' = MicAfterRead
         /\ now' = time
         /\ heard' = Append(heard, c)
         /\ frames' = [frames EXCEPT ![t] = Append(@, c)]
         /\ current_time' = [current_time EXCEPT ![t] = time]
         /\ recording_start' =
               [recording_start EXCEPT ![t] = NewRecordingStart(t, c, time)]
         /\ silence_start' =
               [silence_start EXCEPT ![t] = NewSilenceStart(t, c, time)]
         /\ tpc' = [tpc EXCEPT ![t] = AfterChunk(t, c, time)]
    /\ UNCHANGED << config_vars, audio_vars, driver_vars, stream_vars, filename,
                    store_vars, reader_vars, app_vars >>

\* stream.read raises: except, break, and _record_audio's finally
ReadFails(t) ==
    /\ tpc[t] = "read"
    /\ tpc' = [tpc EXCEPT ![t] = "finally"]
    /\ UNCHANGED << config_vars, audio_vars, device_vars, driver_vars, stream_vars,
                    local_vars, filename, store_vars, reader_vars, app_vars >>

\* end of speech detected: is the buffer saved?
ShouldSave(t) ==
    /\ (current_time[t] - recording_start[t]) >= min_recording_duration
    /\ IsActualSpeech(frames[t])

ResetLocals(t) ==
    /\ frames' = [frames EXCEPT ![t] = << >>]
    /\ recording_start' = [recording_start EXCEPT ![t] = None]
    /\ silence_start' = [silence_start EXCEPT ![t] = None]
    /\ UNCHANGED current_time

Finalize(t) ==
    /\ tpc[t] = "finalize"
    /\ IF ShouldSave(t)
       THEN /\ filename' = [filename EXCEPT ![t] = now]
            /\ tpc' = [tpc EXCEPT ![t] = "save_lock"]
            /\ UNCHANGED local_vars
       ELSE /\ tpc' = [tpc EXCEPT ![t] = "loop"]
            /\ ResetLocals(t)
            /\ UNCHANGED filename
    /\ UNCHANGED << config_vars, audio_vars, device_vars, driver_vars, stream_vars,
                    store_vars, reader_vars, app_vars >>

----------------------------------------------------------------------------
(* The capture thread: _save_audio_chunk *)

\* with self.lock
SaveLock(t) ==
    /\ tpc[t] = "save_lock"
    /\ lock = NoOne
    /\ lock' = t
    /\ tpc' = [tpc EXCEPT ![t] = "save_unlink"]
    /\ UNCHANGED << config_vars, audio_vars, device_vars, driver_vars, stream_vars,
                    local_vars, filename, latest_audio_file, files, partial, headers,
                    last_event, reader_vars, app_vars >>

\* os.unlink removes the file; it raises when there is none, which is passed over
Unlink(name) ==
    /\ files' = files \ {name}
    /\ partial' = partial \ {name}
    /\ headers' = [n \in DOMAIN headers \ {name} |-> headers[n]]

\* a bug: the previous artifact is not deleted
SaveUnlinkSkipped(t) ==
    /\ tpc[t] = "save_unlink"
    /\ tpc' = [tpc EXCEPT ![t] = "save_open"]
    /\ UNCHANGED << config_vars, audio_vars, device_vars, driver_vars, stream_vars,
                    local_vars, filename, store_vars, reader_vars, app_vars >>

SaveUnlink(t) ==
    /\ tpc[t] = "save_unlink"
    /\ IF latest_audio_file # None
       THEN Unlink(latest_audio_file)
       ELSE UNCHANGED << files, partial, headers >>
    /\ tpc' = [tpc EXCEPT ![t] = "save_open"]
    /\ UNCHANGED << config_vars, audio_vars, device_vars, driver_vars, stream_vars,
                    local_vars, filename, lock, latest_audio_file, last_event,
                    reader_vars, app_vars >>

\* a bug: the handle is set when the file is created, before it is written
SaveOpenSetsHandle(t) ==
    /\ tpc[t] = "save_open"
    /\ files' = files \cup {filename[t]}
    /\ partial' = partial \cup {filename[t]}
    /\ UNCHANGED headers
    /\ latest_audio_file' = filename[t]
    /\ tpc' = [tpc EXCEPT ![t] = "save_write"]
    /\ UNCHANGED << config_vars, audio_vars, device_vars, driver_vars, stream_vars,
                    local_vars, filename, lock, last_event, reader_vars, app_vars >>

\* wave.open(filename, 'wb') creates the file
SaveOpen(t) ==
    /\ tpc[t] = "save_open"
    /\ files' = files \cup {filename[t]}
    /\ partial' = partial \cup {filename[t]}
    /\ UNCHANGED headers
    /\ tpc' = [tpc EXCEPT ![t] = "save_write"]
    /\ UNCHANGED << config_vars, audio_vars, device_vars, driver_vars, stream_vars,
                    local_vars, filename, lock, latest_audio_file, last_event,
                    reader_vars, app_vars >>

\* a bug: a failed write leaves the buffer and the timers as they were
SaveFailsKeepsBuffer(t) ==
    /\ tpc[t] \in {"save_open", "save_write"}
    /\ lock' = NoOne
    /\ tpc' = [tpc EXCEPT ![t] = "loop"]
    /\ UNCHANGED << config_vars, audio_vars, device_vars, driver_vars,
                    stream_vars, local_vars, filename, latest_audio_file, files,
                    partial, headers, last_event, reader_vars, app_vars >>

\* the write raises (at wave.open, or at writeframes with the file begun):
\* the lock is released, the error is printed, and line 134 resets the locals
SaveFails(t) ==
    /\ tpc[t] \in {"save_open", "save_write"}
    /\ lock' = NoOne
    /\ tpc' = [tpc EXCEPT ![t] = "loop"]
    /\ ResetLocals(t)
    /\ UNCHANGED << config_vars, audio_vars, device_vars, driver_vars, stream_vars,
                    filename, latest_audio_file, files, partial, headers, last_event,
                    reader_vars, app_vars >>

\* what wave writes for the parameters set at lines 206-208: the header
\* holds the bits per sample
Header(nchannels, sampwidth, framerate) ==
    [channels |-> nchannels, bits |-> sampwidth * 8, rate |-> framerate]

\* what wave reads from a header: getnchannels, getsampwidth, getframerate
Params(h) ==
    [nchannels |-> h.channels, sampwidth |-> (h.bits + 7) \div 8,
     framerate |-> h.rate]

WithHeader(name, h) ==
    [n \in DOMAIN headers \cup {name} |-> IF n = name THEN h ELSE headers[n]]

\* a bug: the file is written with the default rate, not the configured one
SaveWriteDefaultRate(t) ==
    /\ tpc[t] = "save_write"
    /\ partial' = partial \ {filename[t]}
    /\ headers' = WithHeader(filename[t],
                             Header(channels, SampleWidth, DefaultSampleRate))
    /\ tpc' = [tpc EXCEPT ![t] = "save_set"]
    /\ UNCHANGED << config_vars, audio_vars, device_vars, driver_vars,
                    stream_vars, local_vars, filename, lock,
                    latest_audio_file, files, last_event, reader_vars, app_vars >>

\* setnchannels .. writeframes, and the file is closed
SaveWrite(t) ==
    /\ tpc[t] = "save_write"
    /\ partial' = partial \ {filename[t]}
    /\ headers' = WithHeader(filename[t],
                             Header(channels, SampleWidth, sample_rate))
    /\ tpc' = [tpc EXCEPT ![t] = "save_set"]
    /\ UNCHANGED << config_vars, audio_vars, device_vars, driver_vars, stream_vars,
                    local_vars, filename, lock, latest_audio_file, files,
                    last_event, reader_vars, app_vars >>

\* self.latest_audio_file = filename; the lock is released; line 134 resets
SaveSet(t) ==
    /\ tpc[t] = "save_set"
    /\ latest_audio_file' = filename[t]
    /\ last_event' = [op |-> "publish", name |-> filename[t], again |-> FALSE]
    /\ lock' = NoOne
    /\ tpc' = [tpc EXCEPT ![t] = "loop"]
    /\ ResetLocals(t)
    /\ UNCHANGED << config_vars, audio_vars, device_vars, driver_vars, stream_vars,
                    filename, files, partial, headers, reader_vars, app_vars >>

\* _record_audio's finally: the stream self.stream names is stopped and closed
Finally(t) ==
    /\ tpc[t] = "finally"
    /\ open_streams' = IF stream # None THEN open_streams \ {stream} ELSE open_streams
    /\ tpc' = [tpc EXCEPT ![t] = "done"]
    /\ UNCHANGED << config_vars, audio_vars, device_vars, driver_vars, stream,
                    local_vars, filename, store_vars, reader_vars, app_vars >>

\* callback mode: while self.is_recording
PollTest(t) ==
    /\ tpc[t] = "poll"
    /\ tpc' = [tpc EXCEPT ![t] = IF is_recording THEN "sleep" ELSE "finally"]
    /\ UNCHANGED << config_vars, audio_vars, device_vars, driver_vars, stream_vars,
                    local_vars, filename, store_vars, reader_vars, app_vars >>

\* callback mode: time.sleep(0.1)
PollSleep(t) ==
    /\ tpc[t] = "sleep"
    /\ tpc' = [tpc EXCEPT ![t] = "poll"]
    /\ UNCHANGED << config_vars, audio_vars, device_vars, driver_vars, stream_vars,
                    local_vars, filename, store_vars, reader_vars, app_vars >>

\* a bug: _audio_callback hands the data to the caller's callback
AudioCallbackCallsBack(t) ==
    /\ tpc[t] \in {"poll", "sleep"}
    /\ t \in open_streams
    /\ \E c \in NextChunks :
         /\ mic' = MicAfterRead
         /\ now' = now + ChunkMs * c.n
         /\ heard' = Append(heard, c)
    /\ delivered' = delivered + 1
    /\ callback_calls' = callback_calls + 1
    /\ UNCHANGED << config_vars, audio_vars, driver_vars, stream_vars, tpc,
                    local_vars, filename, store_vars, reader_vars, main_vars,
                    tts_vars, callback, history_vars >>

\* _audio_callback, run by the started stream with the next chunk: the data
\* is returned and nothing is kept
AudioCallback(t) ==
    /\ tpc[t] \in {"poll", "sleep"}
    /\ t \in open_streams
    /\ \E c \in NextChunks :
         /\ mic' = MicAfterRead
         /\ now' = now + ChunkMs * c.n
         /\ heard' = Append(heard, c)
    /\ delivered' = delivered + 1
    /\ UNCHANGED << config_vars, audio_vars, driver_vars, stream_vars, tpc,
                    local_vars, filename, store_vars, reader_vars, main_vars,
                    tts_vars, callback, callback_calls, history_vars >>

CaptureStep(t) ==
    \/ OpenStream(t)
    \/ OpenFails(t)
    \/ LoopTest(t)
    \/ ReadChunk(t)
    \/ ReadFails(t)
    \/ Finalize(t)
    \/ SaveLock(t)
    \/ SaveUnlink(t)
    \/ SaveOpen(t)
    \/ SaveFails(t)
    \/ SaveWrite(t)
    \/ SaveSet(t)
    \/ Finally(t)

----------------------------------------------------------------------------
(* Readers: get_latest_audio_file and clear_latest_audio *)

\* a bug: get_latest_audio_file does not wait for the lock
GetLockUnguarded(r) ==
    /\ rpc[r] = "idle"
    /\ lock' = ReaderId(r)
    /\ rpc' = [rpc EXCEPT ![r] = "get"]
    /\ UNCHANGED << config_vars, audio_vars, device_vars, driver_vars, stream_vars, tpc,
                    local_vars, filename, latest_audio_file, files, partial, headers,
                    last_event, audio_file, app_vars >>

\* with self.lock, in get_latest_audio_file
GetLock(r) ==
    /\ rpc[r] = "idle"
    /\ lock = NoOne
    /\ lock' = ReaderId(r)
    /\ rpc' = [rpc EXCEPT ![r] = "get"]
    /\ UNCHANGED << config_vars, audio_vars, device_vars, driver_vars, stream_vars, tpc,
                    local_vars, filename, latest_audio_file, files, partial, headers,
                    last_event, audio_file, app_vars >>

\* return self.latest_audio_file, and the lock is released
GetReturn(r) ==
    /\ rpc[r] = "get"
    /\ audio_file' = [audio_file EXCEPT ![r] = latest_audio_file]
    /\ lock' = NoOne
    /\ rpc' = [rpc EXCEPT ![r] = "idle"]
    /\ UNCHANGED << config_vars, audio_vars, device_vars, driver_vars, stream_vars, tpc,
                    local_vars, filename, latest_audio_file, files, partial, headers,
                    last_event, app_vars >>

\* with self.lock, in clear_latest_audio
ClearLock(r) ==
    /\ rpc[r] = "idle"
    /\ lock = NoOne
    /\ lock' = ReaderId(r)
    /\ rpc' = [rpc EXCEPT ![r] = "clear"]
    /\ UNCHANGED << config_vars, audio_vars, device_vars, driver_vars, stream_vars, tpc,
                    local_vars, filename, latest_audio_file, files, partial, headers,
                    last_event, audio_file, app_vars >>

\* a bug: the file is deleted and the handle is kept
ClearReturnKeepsHandle(r) ==
    /\ rpc[r] = "clear"
    /\ IF latest_audio_file # None
       THEN Unlink(latest_audio_file)
       ELSE UNCHANGED << files, partial, headers >>
    /\ last_event' = [op |-> "clear", name |-> None, again |-> last_event.op = "clear"]
    /\ lock' = NoOne
    /\ rpc' = [rpc EXCEPT ![r] = "idle"]
    /\ UNCHANGED << config_vars, audio_vars, device_vars, driver_vars, stream_vars, tpc,
                    local_vars, filename, latest_audio_file, audio_file, app_vars >>

\* a bug: every temp_audio file is deleted, whatever the store holds
ClearReturnDeletesAll(r) ==
    /\ rpc[r] = "clear"
    /\ files' = {}
    /\ partial' = {}
    /\ headers' = << >>
    /\ latest_audio_file' = None
    /\ last_event' = [op |-> "clear", name |-> None, again |-> last_event.op = "clear"]
    /\ lock' = NoOne
    /\ rpc' = [rpc EXCEPT ![r] = "idle"]
    /\ UNCHANGED << config_vars, audio_vars, device_vars, driver_vars, stream_vars, tpc,
                    local_vars, filename, audio_file, app_vars >>

\* the body of clear_latest_audio, and the lock is released
ClearReturn(r) ==
    /\ rpc[r] = "clear"
    /\ IF latest_audio_file # None
       THEN /\ Unlink(latest_audio_file)
            /\ latest_audio_file' = None
       ELSE UNCHANGED << latest_audio_file, files, partial, headers >>
    /\ last_event' = [op |-> "clear", name |-> None, again |-> last_event.op = "clear"]
    /\ lock' = NoOne
    /\ rpc' = [rpc EXCEPT ![r] = "idle"]
    /\ UNCHANGED << config_vars, audio_vars, device_vars, driver_vars, stream_vars, tpc,
                    local_vars, filename, audio_file, app_vars >>

ReaderStep(r) ==
    \/ GetLock(r)
    \/ GetReturn(r)
    \/ ClearLock(r)
    \/ ClearReturn(r)

----------------------------------------------------------------------------
(* The conversation loop: RealTimeConversationApp._conversation_loop *)

\* with self.lock, in the get_latest_audio_file of line 119
MainGetLock ==
    /\ mpc = "top"
    /\ Len(used) < MaxUses
    /\ lock = NoOne
    /\ lock' = MainId
    /\ mpc' = "get"
    /\ UNCHANGED << capture_vars, latest_audio_file, files, partial, headers,
                    last_event, reader_vars, main_file, used, tts_vars, callback_vars,
                    history_vars >>

\* audio_file = the handle; without one the loop goes round
MainGetReturn ==
    /\ mpc = "get"
    /\ main_file' = latest_audio_file
    /\ lock' = NoOne
    /\ mpc' = IF latest_audio_file # None THEN "transcribe" ELSE "top"
    /\ UNCHANGED << capture_vars, latest_audio_file, files, partial, headers,
                    last_event, reader_vars, used, tts_vars, callback_vars,
                    history_vars >>

\* what transcribe can return: the provider opens the file, and returns None
\* when it cannot; with the file read it returns a text ("bye" holds an exit
\* command), an empty text, or None when the request fails
Transcripts(name) ==
    IF name \in files THEN {"text", "bye", "", "None"} ELSE {"None"}

\* the position after lines 127-153: log_transcription raises on None
\* (len(None)) and the except clause of line 163 skips the clear; an exit
\* command breaks out of the loop; otherwise the clear of line 153 is next
AfterTranscribe(text) ==
    IF text = "None" THEN "top"
    ELSE IF text = "bye" THEN "exit"
    ELSE "clear_wait"

\* lines 127-150, outside the lock
MainTranscribe ==
    /\ mpc = "transcribe"
    /\ \E text \in Transcripts(main_file) :
          /\ used' = Append(used, [name |-> main_file,
                                    there |-> main_file \in files \ partial,
                                    text |-> text])
          /\ mpc' = AfterTranscribe(text)
    /\ UNCHANGED << capture_vars, store_vars, reader_vars, main_file, tts_vars, callback_vars,
                    history_vars >>

\* with self.lock, in the clear_latest_audio of line 153
MainClearLock ==
    /\ mpc = "clear_wait"
    /\ lock = NoOne
    /\ lock' = MainId
    /\ mpc' = "clear"
    /\ UNCHANGED << capture_vars, latest_audio_file, files, partial, headers,
                    last_event, reader_vars, main_file, used, tts_vars, callback_vars,
                    history_vars >>

\* the body of clear_latest_audio, and the loop goes round
MainClearReturn ==
    /\ mpc = "clear"
    /\ IF latest_audio_file # None
       THEN /\ Unlink(latest_audio_file)
            /\ latest_audio_file' = None
       ELSE UNCHANGED << latest_audio_file, files, partial, headers >>
    /\ last_event' = [op |-> "clear", name |-> None, again |-> last_event.op = "clear"]
    /\ lock' = NoOne
    /\ mpc' = "top"
    /\ UNCHANGED << capture_vars, reader_vars, main_file, used, tts_vars, callback_vars,
                    history_vars >>

MainStep ==
    \/ MainGetLock
    \/ MainGetReturn
    \/ MainTranscribe
    \/ MainClearLock
    \/ MainClearReturn

----------------------------------------------------------------------------
(* The speech queue: TTSService.queue_speech and _playback_worker *)

WorkerAlive(w) == wpc[w] \notin {"none", "done"}
UnusedWorkers == {w \in Workers : wpc[w] = "none"}

\* self.audio_queue.put((text, voice_id)); the texts are numbered as queued
QueuePut ==
    /\ qpc = "idle"
    /\ queued < MaxItems
    /\ queued' = queued + 1
    /\ audio_queue' = Append(audio_queue, queued + 1)
    /\ qpc' = "test"
    /\ UNCHANGED << is_playing, playback_thread, wpc, item, spoken >>

\* if not self.is_playing
QueueTest ==
    /\ qpc = "test"
    /\ qpc' = IF is_playing THEN "idle" ELSE "start"
    /\ UNCHANGED << audio_queue, is_playing, playback_thread, wpc, item,
                    spoken, queued >>

\* _start_playback_thread: nothing is done while the last thread is alive
StartPlaybackThread ==
    /\ qpc = "start"
    /\ IF playback_thread # None /\ WorkerAlive(playback_thread)
       THEN UNCHANGED << is_playing, playback_thread, wpc >>
       ELSE /\ UnusedWorkers # {}
            /\ LET w == CHOOSE u \in UnusedWorkers : \A v \in UnusedWorkers : u <= v
               IN /\ is_playing' = TRUE
                  /\ playback_thread' = w
                  /\ wpc' = [wpc EXCEPT ![w] = "loop"]
    /\ qpc' = "idle"
    /\ UNCHANGED << audio_queue, item, spoken, queued >>

\* while self.is_playing
WorkerLoopTest(w) ==
    /\ wpc[w] = "loop"
    /\ wpc' = [wpc EXCEPT ![w] = IF is_playing THEN "get" ELSE "done"]
    /\ UNCHANGED << audio_queue, is_playing, playback_thread, item, spoken,
                    qpc, queued >>

\* self.audio_queue.get(timeout=1.0) returns the head of the queue
WorkerGet(w) ==
    /\ wpc[w] = "get"
    /\ audio_queue # << >>
    /\ item' = [item EXCEPT ![w] = Head(audio_queue)]
    /\ audio_queue' = Tail(audio_queue)
    /\ wpc' = [wpc EXCEPT ![w] = "speak"]
    /\ UNCHANGED << is_playing, playback_thread, spoken, qpc, queued >>

\* the get raises queue.Empty: the queue has been empty for a second
WorkerTimesOut(w) ==
    /\ wpc[w] = "get"
    /\ audio_queue = << >>
    /\ wpc' = [wpc EXCEPT ![w] = "empty"]
    /\ UNCHANGED << audio_queue, is_playing, playback_thread, item, spoken,
                    qpc, queued >>

\* self.speak(text, voice_id, blocking=True); task_done
WorkerSpeak(w) ==
    /\ wpc[w] = "speak"
    /\ spoken' = Append(spoken, item[w])
    /\ wpc' = [wpc EXCEPT ![w] = "loop"]
    /\ UNCHANGED << audio_queue, is_playing, playback_thread, item, qpc,
                    queued >>

\* except queue.Empty: self.is_playing = False
WorkerStops(w) ==
    /\ wpc[w] = "empty"
    /\ is_playing' = FALSE
    /\ wpc' = [wpc EXCEPT ![w] = "break"]
    /\ UNCHANGED << audio_queue, playback_thread, item, spoken, qpc, queued >>

\* break, and the thread ends
WorkerExits(w) ==
    /\ wpc[w] = "break"
    /\ wpc' = [wpc EXCEPT ![w] = "done"]
    /\ UNCHANGED << audio_queue, is_playing, playback_thread, item, spoken,
                    qpc, queued >>

TTSStep ==
    /\ \/ QueuePut
       \/ QueueTest
       \/ StartPlaybackThread
       \/ \E w \in Workers :
             \/ WorkerLoopTest(w)
             \/ WorkerGet(w)
             \/ WorkerTimesOut(w)
             \/ WorkerSpeak(w)
             \/ WorkerStops(w)
             \/ WorkerExits(w)
    /\ UNCHANGED << capture_vars, store_vars, reader_vars, main_vars, callback_vars,
                    history_vars >>

----------------------------------------------------------------------------
(* The conversation history: ConversationManager *)

MAX_CONVERSATION_HISTORY == 10

\* the max_history arguments tried: None (the default), and small numbers
MaxHistoryArgs == {None, 1, 2, 3}

\* __init__: max_history or Config.MAX_CONVERSATION_HISTORY
NewConversationManager ==
    /\ max_history = None
    /\ \E arg \in MaxHistoryArgs :
         max_history' = IF arg = None \/ arg = 0 THEN MAX_CONVERSATION_HISTORY ELSE arg
    /\ conversation_history' = << >>
    /\ UNCHANGED << exchanges, added >>

\* s[-k:] of Python
Suffix(s, k) ==
    IF k = 0 \/ k >= Len(s) THEN s ELSE SubSeq(s, Len(s) - k + 1, Len(s))

Message(role, content) == [role |-> role, content |-> content]

\* a bug: the trimmed history is one message short
AddExchangeTrimsOneMore(user_input, ai_response) ==
    /\ max_history # None
    /\ added < MaxExchanges
    /\ added' = added + 1
    /\ exchanges' = Append(exchanges, user_input)
    /\ LET appended == conversation_history
                          \o << Message("user", user_input),
                                Message("assistant", ai_response) >>
       IN conversation_history' =
             IF Len(appended) > max_history * 2
             THEN Suffix(appended, max_history * 2 - 1)
             ELSE appended
    /\ UNCHANGED max_history

\* add_exchange: two appends, then the trim
AddExchange(user_input, ai_response) ==
    /\ max_history # None
    /\ added < MaxExchanges
    /\ added' = added + 1
    /\ exchanges' = Append(exchanges, user_input)
    /\ LET appended == conversation_history
                          \o << Message("user", user_input),
                                Message("assistant", ai_response) >>
       IN conversation_history' =
             IF Len(appended) > max_history * 2
             THEN Suffix(appended, max_history * 2)
             ELSE appended
    /\ UNCHANGED max_history

\* clear_history
ClearHistory ==
    /\ max_history # None
    /\ conversation_history' = << >>
    /\ exchanges' = << >>
    /\ UNCHANGED << max_history, added >>

\* the texts of an exchange are numbered by the call that adds them
HistoryStep ==
    /\ \/ NewConversationManager
       \/ AddExchange(added + 1, added + 1)
       \/ ClearHistory
    /\ UNCHANGED << capture_vars, store_vars, reader_vars, main_vars, tts_vars,
                    callback_vars >>

----------------------------------------------------------------------------
(* Specifications *)

NextSeg ==
    \/ StartRecording
    \/ \E t \in Threads : CaptureStep(t)

SpecSeg == InitSeg /\ [][NextSeg]_vars

SpecScenario == InitScenario /\ [][NextSeg]_vars

\* reads that return no sample
SpecEmptyRead == InitEmptyRead /\ [][NextSeg]_vars

\* the classifier on buffers of every kind
SpecClassify == InitClassify /\ [][NextSeg]_vars

\* the capture thread and the readers of the store
Next ==
    \/ StartRecording
    \/ \E t \in Threads : CaptureStep(t)
    \/ \E r \in Readers : ReaderStep(r)

Spec == InitStore /\ [][Next]_vars

\* the capture thread and the conversation loop
NextConversation ==
    \/ StartRecording
    \/ \E t \in Threads : CaptureStep(t)
    \/ MainStep

SpecConversation == InitStore /\ [][NextConversation]_vars

\* both recording modes: threads started with and without a callback
NextModes ==
    \/ StartRecording
    \/ StartRecordingWithCallback
    \/ StopRecording
    \/ JoinReturns
    \/ JoinTimesOut
    \/ \E t \in Threads : CaptureStep(t)
    \/ \E t \in Threads : PollTest(t) \/ PollSleep(t) \/ AudioCallback(t)

SpecModes == InitLife /\ [][NextModes]_vars

\* the conversation history
SpecHistory == InitStore /\ [][HistoryStep]_vars

\* the speech queue, its caller and its playback workers
SpecTTS == InitStore /\ [][TTSStep]_vars

\* the store at every configured sample rate
SpecRoundTrip == InitRoundTrip /\ [][Next]_vars

\* the owner starting and stopping the driver
NextLife ==
    \/ StartRecording
    \/ StopRecording
    \/ JoinReturns
    \/ JoinTimesOut
    \/ \E t \in Threads : CaptureStep(t)

SpecLife == InitLife /\ [][NextLife]_vars

\* the owner starting, stopping and shutting down the driver
NextShutdown ==
    \/ NextLife
    \/ CleanupCall
    \/ Terminate

SpecShutdown == InitShutdown /\ [][NextShutdown]_vars

\* the steps a capture thread takes when nothing fails: a read raises only
\* on a closed stream, an open only once PortAudio is released; a read on an
\* open stream that has nothing to deliver stays blocked
ThreadRuns(t) ==
    \/ OpenStream(t)
    \/ (terminations > 0 /\ OpenFails(t))
    \/ LoopTest(t)
    \/ ReadChunk(t)
    \/ (stream \notin open_streams /\ ReadFails(t))
    \/ Finalize(t)
    \/ SaveLock(t)
    \/ SaveUnlink(t)
    \/ SaveOpen(t)
    \/ SaveWrite(t)
    \/ SaveSet(t)
    \/ Finally(t)

\* every thread that can run does run, the join returns within its timeout
\* and cleanup goes on to line 238
SpecShutdownFair ==
    /\ SpecShutdown
    /\ WF_vars(JoinReturns \/ JoinTimesOut)
    /\ WF_vars(Terminate)
    /\ \A t \in Threads : WF_vars(ThreadRuns(t))

----------------------------------------------------------------------------
(* Segmentation: definitions the properties use *)

IsLoud(c) == ChunkVolumeAbove(c, silence_threshold)
LoudChunks(buf) == SelectSeq(buf, IsLoud)
AllQuiet(buf) == \A i \in 1 .. Len(buf) : ~IsLoud(buf[i])
BelowSpeech(c) == VolumeBelow(<< c >>, speech_threshold)
\* time the chunks above the silence threshold span
ActiveMs(buf) == Len(LoudChunks(buf)) * ChunkMs
SavePcs == {"save_lock", "save_unlink", "save_open", "save_write", "save_set"}
Saving(t) == tpc[t] \in SavePcs
StoreEmpty == latest_audio_file = None /\ files = {}

----------------------------------------------------------------------------
(* C1: whenever a segment is finalized whose chunks above the silence      *)
(* threshold are speech (by the test of _is_actual_speech) and span at     *)
(* least min_recording_duration, _save_audio_chunk is run for it.          *)
C1_SpeechSegmentIsPublished ==
    \A t \in Threads :
        ( /\ tpc[t] = "finalize"
          /\ IsActualSpeech(LoudChunks(frames[t]))
          /\ ActiveMs(frames[t]) >= min_recording_duration )
        => ShouldSave(t)

(* C2: while every chunk read so far is at or below the silence threshold, *)
(* no recording start is set, no segment is finalized or saved, and the    *)
(* store is empty.                                                         *)
C2_SilenceStaysIdle ==
    AllQuiet(heard) =>
        /\ \A t \in Threads :
              recording_start[t] = None /\ tpc[t] # "finalize" /\ ~Saving(t)
        /\ StoreEmpty

\* silence, one chunk of it exactly at the threshold, has lasted longer than
\* silence_duration
C2_Witness ==
    /\ AllQuiet(heard)
    /\ \E i \in 1 .. Len(heard) : heard[i] = Hum
    /\ \E t \in Threads :
          /\ silence_start[t] # None
          /\ current_time[t] - silence_start[t] > silence_duration

(* C3: a segment is saved only if its chunks above the silence threshold   *)
(* span at least min_recording_duration.                                   *)
C3_ShortSegmentIsDiscarded ==
    \A t \in Threads :
        Saving(t) => ActiveMs(frames[t]) >= min_recording_duration

(* C4: while no chunk read so far has a volume of the speech threshold or  *)
(* more, nothing is saved and the store is empty, whatever was finalized.  *)
C4_NoiseIsNotPublished ==
    (\A i \in 1 .. Len(heard) : BelowSpeech(heard[i])) =>
        /\ \A t \in Threads : ~Saving(t)
        /\ StoreEmpty

\* 30 chunks of RMS 120 were read, the segment was finalized and the buffer
\* reset, and the store is empty
C4_Witness ==
    /\ Len(SelectSeq(heard, IsLoud)) = 30
    /\ \A i \in 1 .. Len(heard) : heard[i] \in {Noise, Silent}
    /\ \E t \in Threads :
          /\ tpc[t] = "loop"
          /\ frames[t] = << >>
          /\ recording_start[t] = None
    /\ StoreEmpty

----------------------------------------------------------------------------
(* The store: definitions the properties use *)

Complete == files \ partial
CaptureInCS(t) == tpc[t] \in {"save_unlink", "save_open", "save_write", "save_set"}
ReaderInCS(r) == rpc[r] \in {"get", "clear"}
\* the handle of the last publish, if no clear came after it
Expected == IF last_event.op = "publish" THEN last_event.name ELSE None
Spawned == {t \in Threads : tpc[t] # "none"}

C6_HandleNamesCompleteArtifact ==
    lock = NoOne =>
        (latest_audio_file = None \/ latest_audio_file \in Complete)

(* C7: at most one of the capture threads and the readers is inside a      *)
(* critical section of publish, peek or clear, and it is the holder of the *)
(* lock; so no peek reads the handle while a publish is under way.         *)
C7_MutualExclusion ==
    /\ \A t \in Threads : CaptureInCS(t) => lock = t
    /\ \A r \in Readers : ReaderInCS(r) => lock = ReaderId(r)
    /\ \A t \in Threads : \A r \in Readers : ~(CaptureInCS(t) /\ ReaderInCS(r))
    /\ \A r1, r2 \in Readers : ReaderInCS(r1) /\ ReaderInCS(r2) => r1 = r2

\* a reader is in its critical section while the capture thread waits to
\* publish and another reader has a handle
C7_Witness ==
    /\ \E t \in Threads : tpc[t] = "save_lock"
    /\ \E r \in Readers : rpc[r] = "get" /\ latest_audio_file # None

(* C8: the store's handle and every handle a reader has obtained never     *)
(* name an artifact whose write has not completed.                         *)
C8_VisibleHandleIsWritten ==
    /\ latest_audio_file \notin partial
    /\ \A r \in Readers : audio_file[r] \notin partial

\* a new artifact is being written while the store and a reader hold the
\* handle of the previous one
C8_Witness ==
    /\ \E t \in Threads : tpc[t] = "save_write" /\ filename[t] \in partial
    /\ latest_audio_file # None
    /\ \E r \in Readers : audio_file[r] = latest_audio_file

(* C9: every get_latest_audio_file returns the handle of the most recent   *)
(* publish if no clear came after it, and nothing otherwise.               *)
C9_LastWriteWins ==
    [][\A r \in Readers :
          (rpc[r] = "get" /\ rpc'[r] = "idle") => audio_file'[r] = Expected]_vars

\* a reader that had obtained the first utterance has now obtained the one
\* that superseded it
C9_Witness ==
    \E r1, r2 \in Readers :
        /\ audio_file[r1] # None
        /\ audio_file[r2] # None
        /\ audio_file[r1] < audio_file[r2]
        /\ audio_file[r2] = latest_audio_file
        /\ last_event.op = "publish"

(* C10: while is_recording is set no step spawns a thread, so a call of    *)
(* start_recording made while the driver runs leaves one thread spawned.   *)
C10_StartIsIdempotent ==
    [][is_recording => Spawned' = Spawned]_vars

\* start_recording was called twice and one thread exists
C10_Witness ==
    /\ starts = 2
    /\ is_recording
    /\ Cardinality(Spawned) = 1
    /\ \E t \in Threads : tpc[t] = "read"

----------------------------------------------------------------------------
(* The lifecycle: definitions the properties use *)

\* the capture threads that have been started and have not ended
Alive == {t \in Threads : tpc[t] \notin {"none", "done"}}

(* C11: at most one pull-loop thread is alive.                             *)
C11_AtMostOneLoopThread == Cardinality(Alive) <= 1

(* C12: a loop thread that ends while the driver is stopped leaves the     *)
(* stream it opened closed.                                                *)
C12_StoppedLoopClosesItsStream ==
    [][\A t \in Threads :
          (tpc[t] = "finally" /\ tpc'[t] = "done" /\ ~is_recording) =>
              t \notin open_streams']_vars

\* a capture thread is in stream.read and the device has nothing to deliver
BlockedInRead(t) ==
    /\ tpc[t] = "read"
    /\ mic.script = << >>
    /\ mic.free = 0

C14_NoStreamOpenAfterCleanup ==
    (terminations > 0 /\ opc = "idle") => open_streams = {}

\* cleanup has returned, its join timed out, and the thread it abandoned
\* had opened its stream
C14_Witness ==
    /\ terminations > 0
    /\ opc = "idle"
    /\ \E t \in Threads :
          /\ recording_thread = t
          /\ stream = t
          /\ tpc[t] \notin {"none", "open", "finally", "done"}

(* C15: the device handle is released at most once, however many times     *)
(* cleanup is called.                                                      *)
C15_ReleasedAtMostOnce == terminations <= 1

\* the three tests on the buffer, the dynamic range taken as max - min
MeetsSpeechTests(buf) ==
    /\ buf # << >>
    /\ VolumeAbove(buf, speech_threshold)
    /\ MaxOf(buf) - MinOf(buf) > min_dynamic_range
    /\ ZeroCrossingRateOk(buf)

(* C20: at the end of a segment _is_actual_speech is true of the buffer    *)
(* exactly when its RMS is above 150, its dynamic range above 1000 and its *)
(* zero-crossing rate strictly between 0.01 and 0.3.                       *)
C20_VerdictIsTheThreeTests ==
    \A t \in Threads :
        tpc[t] = "finalize" =>
            (IsActualSpeech(frames[t]) <=> MeetsSpeechTests(frames[t]))

C17_FaultyChunkIsSkipped ==
    [][\A t \in Threads :
          (tpc[t] = "read" /\ tpc'[t] # "read" /\ mic' = mic) =>
              /\ tpc'[t] = "loop"
              /\ frames'[t] = frames[t]
              /\ recording_start'[t] = recording_start[t]
              /\ silence_start'[t] = silence_start[t]]_vars

(* C18: once the thread of the last start has ended, is_recording is not   *)
(* set.                                                                    *)
C18_EndedLoopIsObservable ==
    (recording_thread # None /\ tpc[recording_thread] = "done") => ~is_recording

(* C19: a thread that is about to delete the old artifact, to create the   *)
(* new one or to write it does not hold the lock.                          *)
C19_NoIOUnderLock ==
    \A t \in Threads :
        tpc[t] \in {"save_unlink", "save_open", "save_write"} => lock # t

----------------------------------------------------------------------------
(* Segmentation and classification, continued *)

(* C21: the dynamic range _is_actual_speech uses is the maximum sample     *)
(* minus the minimum sample.                                               *)
C21_DynamicRangeIsMaxMinusMin ==
    \A t \in Threads :
        tpc[t] = "finalize" =>
            DynamicRange(frames[t]) = MaxOf(frames[t]) - MinOf(frames[t])

(* C22: a chunk without samples does not end the loop and is handled as    *)
(* silence: the recording start is kept, and the silence timer is started  *)
(* if it was not running.                                                  *)
C22_EmptyChunkIsSilence ==
    [][\A t \in Threads :
          ( /\ tpc[t] = "read"
            /\ Len(frames'[t]) = Len(frames[t]) + 1
            /\ frames'[t][Len(frames'[t])] = Empty )
          => /\ tpc'[t] \in {"loop", "finalize"}
             /\ recording_start'[t] = recording_start[t]
             /\ silence_start'[t] = IF silence_start[t] = None
                                    THEN current_time'[t]
                                    ELSE silence_start[t]]_vars

\* a chunk without samples was read after speech and has started the silence
\* timer
C22_Witness ==
    \E t \in Threads :
        /\ tpc[t] = "loop"
        /\ Len(frames[t]) >= 2
        /\ frames[t][Len(frames[t])] = Empty
        /\ frames[t][Len(frames[t]) - 1] = Speech
        /\ recording_start[t] # None
        /\ silence_start[t] = current_time[t]

\* the time the chunks of a buffer span
PayloadMs(buf) == Len(buf) * ChunkMs

(* C23: with 20 chunks of speech and no silence before them, the buffer    *)
(* that is saved spans 1.28 s, to one chunk.                               *)
C23_PayloadIsTheSpeech ==
    \A t \in Threads :
        ( /\ Saving(t)
          /\ heard[1] = Speech
          /\ Len(LoudChunks(heard)) = 20 )
        => /\ PayloadMs(frames[t]) >= 1280 - ChunkMs
           /\ PayloadMs(frames[t]) <= 1280 + ChunkMs

C25_IdleBufferIsEmpty ==
    \A t \in Threads :
        (tpc[t] \in {"loop", "read"} /\ recording_start[t] = None)
            => frames[t] = << >>

\* a buffer from its first chunk above the silence threshold on
StripLead(buf) ==
    IF AllQuiet(buf) THEN << >>
    ELSE LET first == CHOOSE i \in 1 .. Len(buf) :
                          /\ IsLoud(buf[i])
                          /\ \A j \in 1 .. i - 1 : ~IsLoud(buf[j])
         IN SubSeq(buf, first, Len(buf))

(* C26: the verdict on a finalized buffer is the verdict on the buffer     *)
(* without the silent chunks read before its first loud chunk.             *)
C26_LeadDoesNotDecide ==
    \A t \in Threads :
        tpc[t] = "finalize" =>
            (IsActualSpeech(frames[t]) <=> IsActualSpeech(StripLead(frames[t])))

(* C27: every step that leaves a finalization goes back to the loop test   *)
(* with the buffer empty and both timers cleared.                          *)
C27_FinalizationResets ==
    [][\A t \in Threads :
          ( /\ tpc[t] \in SavePcs \cup {"finalize"}
            /\ tpc'[t] \notin SavePcs \cup {"finalize"} )
          => /\ tpc'[t] = "loop"
             /\ frames'[t] = << >>
             /\ recording_start'[t] = None
             /\ silence_start'[t] = None]_vars

\* a write has failed with the file begun, and the buffer is reset
C27_Witness ==
    /\ partial # {}
    /\ lock = NoOne
    /\ \E t \in Threads :
          /\ tpc[t] = "loop"
          /\ frames[t] = << >>
          /\ recording_start[t] = None
          /\ silence_start[t] = None

\* thread t has read a chunk in this step
HasRead(t) == tpc[t] = "read" /\ Len(frames'[t]) = Len(frames[t]) + 1
ChunkRead(t) == frames'[t][Len(frames'[t])]
InTrailingSilence(t) == recording_start[t] # None /\ silence_start[t] # None

(* C28: a quiet chunk read in trailing silence finalizes the segment       *)
(* exactly when the silence has lasted silence_duration or longer.         *)
C28_FinalizesAtSilenceDuration ==
    [][\A t \in Threads :
          (HasRead(t) /\ InTrailingSilence(t) /\ ~IsLoud(ChunkRead(t))) =>
              ( tpc'[t] = "finalize" <=>
                  current_time'[t] - silence_start[t] >= silence_duration )]_vars

\* time from the first to the last chunk of the quiet run that ends a buffer
QuietRunMs(buf) ==
    LET loud == {i \in 1 .. Len(buf) : IsLoud(buf[i])}
        last == IF loud = {} THEN 0
                ELSE CHOOSE i \in loud : \A j \in loud : j <= i
    IN (Len(buf) - last - 1) * ChunkMs

(* C29: a loud chunk read in trailing silence is appended and clears the   *)
(* silence timer, and a segment is finalized only after one unbroken run   *)
(* of quiet chunks that lasted silence_duration.                           *)
C29_SpeechResumes ==
    [][\A t \in Threads :
          /\ (HasRead(t) /\ InTrailingSilence(t) /\ IsLoud(ChunkRead(t))) =>
                /\ tpc'[t] = "loop"
                /\ silence_start'[t] = None
                /\ recording_start'[t] = recording_start[t]
          /\ (HasRead(t) /\ tpc'[t] = "finalize") =>
                QuietRunMs(frames'[t]) >= silence_duration]_vars

\* a segment is finalized whose speech resumed after a silence
C29_Witness ==
    \E t \in Threads :
        /\ tpc[t] = "finalize"
        /\ \E i, j, k \in 1 .. Len(frames[t]) :
              /\ i < j /\ j < k
              /\ IsLoud(frames[t][i])
              /\ ~IsLoud(frames[t][j])
              /\ IsLoud(frames[t][k])

(* C30: at every finalization the measured duration is greater than        *)
(* silence_duration, so with min_recording_duration <= silence_duration    *)
(* the buffer is saved exactly when _is_actual_speech accepts it.          *)
C30_DurationNeverRejects ==
    \A t \in Threads :
        tpc[t] = "finalize" =>
            /\ current_time[t] - recording_start[t] > silence_duration
            /\ min_recording_duration <= silence_duration =>
                  (ShouldSave(t) <=> IsActualSpeech(frames[t]))

\* a segment of speech shorter than min_recording_duration is finalized, and
\* it will be saved
C30_Witness ==
    \E t \in Threads :
        /\ tpc[t] = "finalize"
        /\ ActiveMs(frames[t]) < min_recording_duration
        /\ ShouldSave(t)

----------------------------------------------------------------------------
(* The lifecycle, continued *)

(* C31: a chunk read while the driver is stopped does not complete a       *)
(* segment that is then saved: the buffer in progress at the stop is       *)
(* dropped.                                                                *)
C31_StoppedSegmentIsDropped ==
    [][\A t \in Threads :
          (HasRead(t) /\ InTrailingSilence(t) /\ ~is_recording) =>
              ~( /\ tpc'[t] = "finalize"
                 /\ IsActualSpeech(frames'[t]) )]_vars

(* C36: the finally block closes a stream that is open, and it leaves the  *)
(* stream its thread opened closed.                                        *)
C36_StreamClosedExactlyOnce ==
    [][\A t \in Threads :
          (tpc[t] = "finally" /\ tpc'[t] = "done") =>
              /\ stream # None => stream \in open_streams
              /\ t \notin open_streams']_vars

----------------------------------------------------------------------------
(* The conversation loop: properties *)

(* C32: while the conversation loop holds a handle it has not transcribed  *)
(* yet, no step deletes the artifact the handle names.                     *)
C32_HeldArtifactStays ==
    [][(mpc = "transcribe" /\ main_file \in Complete) =>
          main_file \in Complete']_vars

(* C33: the clear of the conversation loop deletes the utterance its get   *)
(* returned, and no other.                                                 *)
C33_ClearRemovesWhatWasReturned ==
    [][(mpc = "clear" /\ mpc' = "top" /\ latest_audio_file # None) =>
          latest_audio_file = main_file]_vars

(* C34: no utterance is given to transcribe twice.                         *)
C34_TranscribedAtMostOnce ==
    \A i, j \in 1 .. Len(used) : i # j => used[i].name # used[j].name

----------------------------------------------------------------------------
(* The speech queue: properties *)

\* a worker that will take the next text off the queue
Serving(w) == wpc[w] \in {"get", "speak"} \/ (wpc[w] = "loop" /\ is_playing)

(* C35: once queue_speech has returned, a text that is in the queue has a  *)
(* playback worker that will take it.                                      *)
C35_NoTextIsStranded ==
    (qpc = "idle" /\ audio_queue # << >>) => \E w \in Workers : Serving(w)

----------------------------------------------------------------------------
(* Callback mode: properties *)

CallbackThreads == {t \in Threads : callback[t] # None}
PollPcs == {"none", "open", "poll", "sleep", "finally", "done"}

(* C37: a thread started with a callback only opens the stream, polls      *)
(* is_recording and closes the stream: it keeps no chunk, names no file,   *)
(* the caller's callback is never invoked, and while every thread started  *)
(* has a callback no utterance is published.                               *)
C37_CallbackModeRecordsNothing ==
    /\ \A t \in CallbackThreads :
          /\ tpc[t] \in PollPcs
          /\ frames[t] = << >>
          /\ recording_start[t] = None
          /\ filename[t] = None
    /\ callback_calls = 0
    /\ (\A t \in Threads : tpc[t] # "none" => callback[t] # None) => files = {} /\ latest_audio_file = None

\* the stream has delivered loud chunks to a polling callback-mode thread
C37_Witness ==
    \E t \in CallbackThreads :
       /\ tpc[t] \in {"poll", "sleep"}
       /\ is_recording
       /\ delivered >= 2
       /\ \E i \in 1 .. Len(heard) : IsLoud(heard[i])

----------------------------------------------------------------------------
(* The conversation history: properties *)

Min(a, b) == IF a <= b THEN a ELSE b

(* C38: the history holds at most 2 * max_history messages: the user and   *)
(* the assistant message of each of the last min(n, max_history) exchanges *)
(* added since construction or the last clear_history, in the order added; *)
(* after clear_history (n = 0) it is empty.                                *)
C38_HistoryIsTheLastExchanges ==
    max_history # None =>
       LET n == Len(exchanges)
           k == Min(n, max_history)
       IN /\ Len(conversation_history) <= 2 * max_history
          /\ Len(conversation_history) = 2 * k
          /\ \A i \in 1 .. k :
                /\ conversation_history[2 * i - 1] =
                      Message("user", exchanges[n - k + i])
                /\ conversation_history[2 * i] =
                      Message("assistant", exchanges[n - k + i])

\* the default history of ten exchanges has been trimmed
C38_Witness ==
    /\ max_history = MAX_CONVERSATION_HISTORY
    /\ Len(exchanges) > max_history
    /\ Len(conversation_history) = 2 * max_history

====
